---- MODULE Spec2Model ----
(***************************************************************************)
(* Model of pydriosm/download_GeoFabrik.py: the catalogue collectors, the  *)
(* cache/fetch layer, the region-subregion tier, subregion name retrieval  *)
(* and the file download orchestrators.                                    *)
(*                                                                         *)
(* The upstream site is a finite set of listing pages.  Page 0 is the home *)
(* page; a page is the sequence of rows of its "Sub Regions" table, and    *)
(* the empty sequence stands for a page without such a table (the parser   *)
(* returns None for it).  Region names are numbers (name ids); a row is    *)
(* [Subregion |-> name, SubregionURL |-> page].  The remaining columns of  *)
(* a row (the three download links and the size) are fixed by the page the *)
(* row links to, so two rows are equal exactly when name and page agree.   *)
(***************************************************************************)
EXTENDS Integers, Sequences, FiniteSets, TLC

VARIABLES site, disk, osm, last, crawling

vars == <<site, disk, osm, last, crawling>>

(* ------------------------------ bounds -------------------------------- *)
\* number of listing pages below the home page
NU == 4
\* largest number of names passed to one call
MaxArgs == 2
\* length of the operator's script of answers; later prompts read empty input
MaxPrompts == 3

URLs == 1..NU
NameIds == 1..NU
home_url == 0

(* ------------------------- sequences and dicts ------------------------ *)
Range(s) == {s[i] : i \in DOMAIN s}

RECURSIVE SortedSeq(_)
SortedSeq(S) ==
  IF S = {} THEN <<>>
  ELSE LET m == CHOOSE x \in S : \A y \in S : x <= y
       IN <<m>> \o SortedSeq(S \ {m})

RECURSIVE Flatten(_)
Flatten(ss) == IF ss = <<>> THEN <<>> ELSE Head(ss) \o Flatten(Tail(ss))

\* list(dict.fromkeys(s)): later duplicates dropped, first-seen order kept
RECURSIVE Dedup(_)
Dedup(s) ==
  IF s = <<>> THEN <<>>
  ELSE LET r == Dedup(SubSeq(s, 1, Len(s) - 1))
           x == s[Len(s)]
       IN IF x \in Range(r) THEN r ELSE Append(r, x)

SeqsUpTo(S, n) == UNION {[1..k -> S] : k \in 0..n}

HasRepeats(s) == \E i, j \in DOMAIN s : i # j /\ s[i] = s[j]

(* ------------------------------ the site ------------------------------ *)
\* A site shape: every page u has a parent page par[u] < u that lists it
\* (0 = the home page), page al.p may list page al.u a second time (a region
\* published under two parents; al.u = 0: none), and nm[u] is the name the
\* rows linking to u carry.  At most one page carries the name of another.
ParFns == {f \in [URLs -> 0..(NU - 1)] : \A u \in URLs : f[u] < u}
Labelings ==
  {[u \in URLs |-> u]} \cup {[u \in URLs |-> IF u = NU THEN g ELSE u] : g \in 1..(NU - 1)}
Aliases == {[p |-> 0, u |-> 0]} \cup {[p |-> q, u |-> NU] : q \in 0..(NU - 1)}

Children(s, p) ==
  {u \in URLs : s.par[u] = p \/ (s.al.u = u /\ s.al.p = p)}

\* the names within one table are unique (spec section 3, Subregion Table)
ValidShape(s) ==
  /\ s.al.u # 0 => s.par[s.al.u] # s.al.p
  /\ \A p \in 0..NU : \A u, v \in Children(s, p) : u # v => s.nm[u] # s.nm[v]

PagesOf(s) ==
  [p \in 0..NU |->
     LET cs == SortedSeq(Children(s, p))
     IN [i \in 1..Len(cs) |-> [Subregion |-> s.nm[cs[i]], SubregionURL |-> cs[i]]]]

Sites == {PagesOf(s) : s \in {t \in [par : ParFns, nm : Labelings, al : Aliases] : ValidShape(t)}}

(* --------------------------- parsed tables ---------------------------- *)
NoneTbl == [isNone |-> TRUE, rows |-> <<>>]

\* get_subregion_table(url) on a reachable page: the table, or None when the
\* page has no "Sub Regions" table (ValueError, caught at line 103)
get_subregion_table(url) ==
  IF site[url] = <<>> THEN NoneTbl ELSE [isNone |-> FALSE, rows |-> site[url]]

Subregion(rows) == [i \in 1..Len(rows) |-> rows[i].Subregion]
SubregionURL(rows) == [i \in 1..Len(rows) |-> rows[i].SubregionURL]

\* the tables that are not None, as their rows (lines 129, 141)
NotNone(tbls) ==
  LET Keep(t) == ~t.isNone
      kept == SelectSeq(tbls, Keep)
  IN [i \in 1..Len(kept) |-> kept[i].rows]

(* ------------------------------- dicts -------------------------------- *)
\* A dict is a sequence of entries with distinct keys k, in insertion order.
\* An entry of a tier is [k, kind, rows, items]: kind "None" (the terminal
\* marker), "Table" (a parsed subregion table, its rows in rows), "Set" (a
\* set of names, kept in rows) or "Dict" (a nested dict, in items).
Keys(d) == [i \in 1..Len(d) |-> d[i].k]

\* d[k] = e for an entry e with key k: in place when k is a key, else appended
DictSet(d, e) ==
  IF e.k \in Range(Keys(d))
  THEN [i \in 1..Len(d) |-> IF d[i].k = e.k THEN e ELSE d[i]]
  ELSE Append(d, e)

RECURSIVE DictFrom(_)
DictFrom(es) ==
  IF es = <<>> THEN <<>> ELSE DictSet(DictFrom(SubSeq(es, 1, Len(es) - 1)), es[Len(es)])

NoneEntry(k) == [k |-> k, kind |-> "None", rows |-> <<>>, items |-> <<>>]
TableEntry(k, t) ==
  IF t.isNone THEN NoneEntry(k) ELSE [k |-> k, kind |-> "Table", rows |-> t.rows, items |-> <<>>]
SetEntry(k, names) == [k |-> k, kind |-> "Set", rows |-> names, items |-> <<>>]
DictEntry(k, d) == [k |-> k, kind |-> "Dict", rows |-> <<>>, items |-> d]

\* dict(zip(names, [get_subregion_table(link) for link in links])), lines 219, 275
TablesDict(rows) ==
  DictFrom([i \in 1..Len(rows) |->
              TableEntry(rows[i].Subregion, get_subregion_table(rows[i].SubregionURL))])

\* pydriosm.utils.update_nested_dict: nested mappings are merged into the
\* existing nested mapping, any other value overwrites
RECURSIVE update_nested_dict(_, _)
update_nested_dict(source_dict, updates) ==
  IF updates = <<>> THEN source_dict
  ELSE LET val == Head(updates)
           old == SelectSeq(source_dict, LAMBDA e : e.k = val.k)
           base == IF old # <<>> /\ old[1].kind = "Dict" THEN old[1].items ELSE <<>>
           new == IF val.kind = "Dict"
                  THEN DictEntry(val.k, update_nested_dict(base, val.items))
                  ELSE val
       IN update_nested_dict(DictSet(source_dict, new), Tail(updates))

(* ---------------- the crawl of collect_subregion_info_catalogue ------- *)
\* One pass of the for loop of lines 137-146 over the frontier tables; acc
\* holds avail_subregions, avail_subregion_urls, avail_subregion_url_tables,
\* subregion_url_tables_ (next) and the number of pages requested so far.
RECURSIVE CrawlLevel(_, _, _)
CrawlLevel(subregion_url_tables, i, acc) ==
  IF i > Len(subregion_url_tables) THEN acc
  ELSE LET subregion_url_table == subregion_url_tables[i]
           subregions == Subregion(subregion_url_table)
           subregion_urls == SubregionURL(subregion_url_table)
           subregion_url_tables_0 ==
             [j \in 1..Len(subregion_urls) |-> get_subregion_table(subregion_urls[j])]
           subregion_url_tables_ == acc.next \o NotNone(subregion_url_tables_0)
       IN CrawlLevel(subregion_url_tables, i + 1,
            [names  |-> acc.names \o subregions,
             urls   |-> acc.urls \o subregion_urls,
             tables |-> acc.tables \o subregion_url_tables_,
             next   |-> subregion_url_tables_,
             levels |-> acc.levels,
             calls  |-> acc.calls + Len(subregion_urls)])

\* the while loop of lines 133-148
RECURSIVE CrawlLoop(_, _)
CrawlLoop(subregion_url_tables, acc) ==
  IF subregion_url_tables = <<>> THEN acc
  ELSE LET a == CrawlLevel(subregion_url_tables, 1,
                           [acc EXCEPT !.next = <<>>,
                                       !.levels = Append(acc.levels, subregion_url_tables)])
       IN CrawlLoop(a.next, a)

\* lines 122-148: the home page's anchors, the continents' tables, the loop
Crawl ==
  LET anchors == site[home_url]
      avail_subregion_url_tables ==
        NotNone([j \in 1..Len(anchors) |-> get_subregion_table(anchors[j].SubregionURL)])
  IN CrawlLoop(avail_subregion_url_tables,
               [names  |-> Subregion(anchors),
                urls   |-> SubregionURL(anchors),
                tables |-> avail_subregion_url_tables,
                next   |-> <<>>,
                levels |-> <<>>,
                calls  |-> 1 + Len(anchors)])

\* The same crawl, one pass of the while loop at a time.  crawling holds the
\* position in lines 122-151 (pc), the frontier subregion_url_tables and the
\* running lists avail_subregions and avail_subregion_urls.  The lists and
\* the frontier of a crawl that goes on for ever grow without end: they are
\* kept up to MaxKept elements, and full tells that something was left out.
MaxKept == 2 * NU
NotCrawling ==
  [pc |-> "idle", subregion_url_tables |-> <<>>, avail_subregions |-> <<>>,
   avail_subregion_urls |-> <<>>, full |-> FALSE]

Kept(s) == IF Len(s) > MaxKept THEN SubSeq(s, 1, MaxKept) ELSE s
Capped(c) ==
  [pc |-> c.pc,
   subregion_url_tables |-> Kept(c.subregion_url_tables),
   avail_subregions |-> Kept(c.avail_subregions),
   avail_subregion_urls |-> Kept(c.avail_subregion_urls),
   full |-> \/ c.full
            \/ Len(c.subregion_url_tables) > MaxKept
            \/ Len(c.avail_subregions) > MaxKept
            \/ Len(c.avail_subregion_urls) > MaxKept]

\* a frontier that keeps the tables it held
kept_frontier(subregion_url_tables, subregion_url_tables_) ==
  subregion_url_tables \o subregion_url_tables_

\* line 148: subregion_url_tables = list(subregion_url_tables_)
next_frontier(subregion_url_tables, subregion_url_tables_) == subregion_url_tables_

\* lines 122-131: the home page's anchors and the continents' tables
CrawlStart ==
  /\ crawling.pc = "idle"
  /\ LET anchors == site[home_url]
     IN crawling' = Capped([pc |-> "while",
                         subregion_url_tables |->
                           NotNone([j \in 1..Len(anchors) |->
                                      get_subregion_table(anchors[j].SubregionURL)]),
                         avail_subregions |-> Subregion(anchors),
                         avail_subregion_urls |-> SubregionURL(anchors),
                         full |-> FALSE])
  /\ UNCHANGED <<site, disk, osm, last>>

\* lines 133-148: one pass of the while loop over a frontier that is not empty
CrawlPass ==
  /\ crawling.pc = "while"
  /\ crawling.subregion_url_tables # <<>>
  /\ \E a \in {CrawlLevel(crawling.subregion_url_tables, 1,
                            [names  |-> crawling.avail_subregions,
                             urls   |-> crawling.avail_subregion_urls,
                             tables |-> <<>>, next |-> <<>>, levels |-> <<>>,
                             calls  |-> 0])} :
       crawling' = Capped([pc |-> "while",
                        subregion_url_tables |->
                          next_frontier(crawling.subregion_url_tables, a.next),
                        avail_subregions |-> a.names,
                        avail_subregion_urls |-> a.urls,
                        full |-> crawling.full])
  /\ UNCHANGED <<site, disk, osm, last>>

\* line 133 on an empty frontier: the loop is left for the saves of line 151
CrawlEnd ==
  /\ crawling.pc = "while"
  /\ crawling.subregion_url_tables = <<>>
  /\ crawling' = [crawling EXCEPT !.pc = "save"]
  /\ UNCHANGED <<site, disk, osm, last>>

\* dict(zip(avail_subregions, avail_subregion_urls)), line 154: last write wins
subregion_url_index(names, urls) ==
  DictFrom([i \in 1..Len(names) |-> [k |-> names[i], v |-> urls[i]]])

\* lines 161-163: every table of the crawl and the home page's own table,
\* concatenated (pandas.concat drops a None), exact duplicate rows dropped
subregion_downloads_index(tables, home_subregion_url_table) ==
  Dedup(Flatten(tables \o NotNone(<<home_subregion_url_table>>)))

\* DataFrame.to_json, line 164: pandas raises ValueError ("DataFrame index
\* must be unique for orient='columns'") when two rows share the index value
IndexIsUnique(rows) ==
  \A i, j \in DOMAIN rows : rows[i].Subregion = rows[j].Subregion => i = j

(* -------- compile_region_subregion_tier (nested in the collector) ----- *)
\* the list of line 279 with the names of the nested call left out
keep_non_subregions(non_subregions_list, without_subregion_) == non_subregions_list

\* non_subregions_list += without_subregion_, line 279
extend_non_subregions(non_subregions_list, without_subregion_) ==
  non_subregions_list \o without_subregion_

\* Returns the tier, the list of names without subregions and the number of
\* pages requested.
RECURSIVE compile_region_subregion_tier(_)
compile_region_subregion_tier(sub_reg_tbls) ==
  LET IsTable(e) == e.kind = "Table"
      IsNone(e) == e.kind # "Table"
      \* lines 259-263
      RECURSIVE FirstLoop(_, _)
      FirstLoop(i, tiers) ==
        IF i > Len(sub_reg_tbls) THEN tiers
        ELSE LET e == sub_reg_tbls[i]
             IN FirstLoop(i + 1,
                  IF IsTable(e)
                  THEN update_nested_dict(sub_reg_tbls, <<SetEntry(e.k, Subregion(e.rows))>>)
                  ELSE tiers)
      non_subregions_list == Keys(SelectSeq(sub_reg_tbls, IsNone))
      \* lines 265-266
      having_subregions == SelectSeq(sub_reg_tbls, IsTable)
      \* lines 270-283: the for loop empties having_subregions_temp in one pass
      RECURSIVE Loop(_, _, _, _)
      Loop(i, tiers, non, calls) ==
        IF i > Len(having_subregions)
        THEN [tier |-> tiers, non |-> non, calls |-> calls]
        ELSE LET subregion_table == having_subregions[i].rows
                 r == compile_region_subregion_tier(TablesDict(subregion_table))
             IN Loop(i + 1,
                     DictSet(tiers, DictEntry(having_subregions[i].k, r.tier)),
                     extend_non_subregions(non, r.non),
                     calls + Len(subregion_table) + r.calls)
  IN Loop(1, FirstLoop(1, sub_reg_tbls), non_subregions_list, 0)

\* the continent-name-to-table mapping of lines 213-219
ContinentTables == TablesDict(site[home_url])

(* ----------------------- subregion name retrieval --------------------- *)
\* find_subregions, lines 407-419, as the list of what the generator yields
RECURSIVE find_subregions(_, _)
find_subregions(reg_name, reg_sub_idx) ==
  IF reg_sub_idx = <<>> THEN <<>>
  ELSE LET e == Head(reg_sub_idx)
           here == IF reg_name = e.k
                   THEN IF e.kind = "Dict" THEN <<Keys(e.items)>> ELSE <<(<<reg_name>>)>>
                   ELSE IF e.kind = "Dict" THEN find_subregions(reg_name, e.items)
                   ELSE <<>>
       IN here \o find_subregions(reg_name, Tail(reg_sub_idx))

\* fuzzywuzzy.process.extractOne(name, names, score_cutoff=50), line 336: an
\* exact canonical name scores 100 and is returned; a string that resembles
\* no canonical name scores below the cutoff and None is returned
extractOne(subregion_name, subregion_names) ==
  IF subregion_name \in Range(subregion_names)
  THEN [found |-> TRUE, name |-> subregion_name]
  ELSE [found |-> FALSE, name |-> 0]

\* list(set(res) - set(check_list)), line 431: the order in which a set of
\* strings is listed is not fixed by the language; ord picks one
SetAsList(S, ord) ==
  LET up == SortedSeq(S)
  IN IF ord = "asc" THEN up ELSE [i \in 1..Len(up) |-> up[Len(up) + 1 - i]]

SetOrders == {"asc", "desc"}

Raised == [ok |-> FALSE, names |-> <<>>]

\* the result as it is, a name as often as it occurs
all_of(result) == result

\* list(dict.fromkeys(result)), line 437: each name once, in first-seen order
list_fromkeys(result) == Dedup(result)


\* lines 422-437 once the three catalogues are loaded; depth bounds the
\* recursion of line 433 (Python raises RecursionError on an endless one)
RECURSIVE Expand(_, _, _, _, _, _)
Expand(subregion_name, region_subregion_index, no_subregion_list, name_list, ord, depth) ==
  IF depth = 0 THEN Raised
  ELSE IF subregion_name = <<>>
  THEN [ok |-> TRUE, names |-> list_fromkeys(no_subregion_list)]
  ELSE
    LET one(region) ==
          LET m == extractOne(region, name_list)
              found == find_subregions(m.name, region_subregion_index)
          IN IF ~m.found \/ found = <<>> THEN Raised      \* TypeError, IndexError
             ELSE [ok |-> TRUE, names |-> found[1]]
        parts == [i \in 1..Len(subregion_name) |-> one(subregion_name[i])]
        res == Flatten([i \in 1..Len(parts) |-> parts[i].names])
        check_list == SelectSeq(res, LAMBDA x : x \notin Range(no_subregion_list))
        subs == [i \in 1..Len(check_list) |->
                   Expand(<<check_list[i]>>, region_subregion_index, no_subregion_list,
                          name_list, ord, depth - 1)]
        result == IF check_list # <<>>
                  THEN SetAsList(Range(res) \ Range(check_list), ord)
                         \o Flatten([i \in 1..Len(subs) |-> subs[i].names])
                  ELSE res
    IN IF \E i \in DOMAIN parts : ~parts[i].ok THEN Raised
       ELSE IF \E i \in DOMAIN subs : ~subs[i].ok THEN Raised
       ELSE [ok |-> TRUE, names |-> list_fromkeys(result)]

(* --------------------------- the local cache -------------------------- *)
NameList == "GeoFabrik-subregion-name-list"
NameUrlDict == "GeoFabrik-subregion-name-url-dictionary"
DownloadsCatalogue == "GeoFabrik-subregion-downloads-catalogue"
ContinentsTables == "GeoFabrik-continents-subregion-tables"
RegionTier == "GeoFabrik-region-subregion-tier"
NonSubregionList == "GeoFabrik-non-subregion-list"

Catalogues ==
  {NameList, NameUrlDict, DownloadsCatalogue, ContinentsTables, RegionTier, NonSubregionList}
Formats == {".pickle", ".json"}
\* cd_dat(catalogue_name + file_format)
Files == Catalogues \X Formats

\* what a cache file holds: a list of names, the rows of a table, or a dict
Blank == [names |-> <<>>, rows |-> <<>>, dict |-> <<>>]
Absent == [present |-> FALSE, c |-> Blank]
EmptyDisk == [f \in Files |-> Absent]

\* a downloaded file is absent, holds what an earlier download wrote ("old")
\* or what a download of the call at hand wrote ("new")
NoFiles == [u \in URLs |-> "absent"]

(* ------------------------- the running call --------------------------- *)
\* A call runs on a world w: the disk, the downloaded files, the answers the
\* operator will type (ans), the faults of the environment (the fault.net-th
\* page request, the fault.sv-th save and the fault.dl-th download of the
\* call fail; 0: none does; fault.reset = 1: the connection is reset while
\* the home page's table is read at line 160, an error get_subregion_table
\* catches), the counts of these done so far, the log of what the call did,
\* and the exception being raised ("" when none is).
NoFault == [net |-> 0, sv |-> 0, dl |-> 0, reset |-> 0]

World(d, o, answers, fault) ==
  [disk |-> d, osm |-> o, ans |-> answers, fault |-> fault,
   nnet |-> 0, nsv |-> 0, ndl |-> 0, log |-> <<>>, exc |-> ""]

Event(e, a, n) == [e |-> e, a |-> a, n |-> n, i |-> 0]
Emit(w, ev) == [w EXCEPT !.log = Append(@, ev)]
Raise(w, what) == IF w.exc # "" THEN w ELSE [w EXCEPT !.exc = what]

\* except Exception as e: print(...) in the operation who
Catch(w, who) ==
  IF w.exc = "" THEN w ELSE Emit([w EXCEPT !.exc = ""], Event("failed", who, 0))

\* pydriosm.utils.confirmed: with confirmation_required the prompt is printed
\* and the answer read (empty input means no; the event keeps the answer, 1
\* for yes); without it, True at once
confirmed(w, prompt, confirmation_required) ==
  IF w.exc # "" THEN [w |-> w, r |-> FALSE]
  ELSE IF ~confirmation_required THEN [w |-> w, r |-> TRUE]
  ELSE LET r == IF w.ans = <<>> THEN FALSE ELSE Head(w.ans)
       IN [w |-> Emit([w EXCEPT !.ans = IF @ = <<>> THEN @ ELSE Tail(@)],
                      Event("prompt", prompt, IF r THEN 1 ELSE 0)),
           r |-> r]

\* n page requests in a row (requests.get, pandas.read_html): a transport
\* error is none of the exceptions line 103 catches and ends the requests
Requests(w, n) ==
  IF w.exc # "" \/ n = 0 THEN w
  ELSE LET k == IF w.fault.net > w.nnet /\ w.fault.net <= w.nnet + n
                THEN w.fault.net - w.nnet ELSE n
           w1 == [w EXCEPT !.nnet = @ + k,
                           !.log = @ \o [j \in 1..k |-> Event("request", "", 0)]]
       IN IF k < n \/ w.fault.net = w.nnet + n THEN Raise(w1, "URLError") ELSE w1

\* pydriosm.utils.save_pickle / save_json: the file is written whole, or a
\* disk error is raised and the file is left as it was
save(w, catalogue_name, file_format, content) ==
  IF w.exc # "" THEN w
  ELSE IF w.fault.sv = w.nsv + 1
  THEN Raise([w EXCEPT !.nsv = @ + 1], "OSError")
  ELSE Emit([w EXCEPT !.nsv = @ + 1,
                      !.disk[<<catalogue_name, file_format>>] =
                         [present |-> TRUE, c |-> content]],
            Event("save", catalogue_name \o file_format, 0))

\* the try of lines 198-202, 236-240, 320-324: load_pickle / load_json; a
\* load error is printed and None is returned
load(w, catalogue_name, file_format) ==
  IF w.exc # "" THEN [w |-> w, none |-> TRUE, c |-> Blank]
  ELSE IF w.disk[<<catalogue_name, file_format>>].present
  THEN [w |-> w, none |-> FALSE, c |-> w.disk[<<catalogue_name, file_format>>].c]
  ELSE [w |-> Emit(w, Event("print", "FileNotFoundError", 0)), none |-> TRUE, c |-> Blank]

(* ------------------------------ collectors ---------------------------- *)
NotActivated(w) == Emit(w, Event("print", "not activated", 0))

\* lines 151-157: the name list and the name-to-URL dictionary are saved
save_names(w, crawl) ==
  LET index == [Blank EXCEPT !.dict = subregion_url_index(crawl.names, crawl.urls)]
  IN save(save(save(w, NameList, ".pickle", [Blank EXCEPT !.names = crawl.names]),
               NameUrlDict, ".pickle", index),
          NameUrlDict, ".json", index)

\* lines 160-168: the home page's table is requested, the downloads
\* catalogue is built (pandas.concat raises ValueError when every table is
\* None, to_json when two rows share a name) and saved
save_downloads(w, tables, home_subregion_url_table) ==
  LET downloads == subregion_downloads_index(tables, home_subregion_url_table)
      built(w5) ==
        IF tables = <<>> /\ home_subregion_url_table.isNone THEN Raise(w5, "ValueError")
        ELSE IF IndexIsUnique(downloads) THEN w5 ELSE Raise(w5, "ValueError")
  IN save(save(built(Requests(w, 1)),
               DownloadsCatalogue, ".pickle", [Blank EXCEPT !.rows = downloads]),
          DownloadsCatalogue, ".json", [Blank EXCEPT !.rows = downloads])

\* collect_subregion_info_catalogue, lines 112-174; get_subregion_table
\* returns None for the home page at line 160 when it catches an error
\* (lines 103-106)
collect_subregion_info_catalogue(w, confirmation_required) ==
  LET home_subregion_url_table ==
        IF w.fault.reset = 1 THEN NoneTbl ELSE get_subregion_table(home_url)
      try(w0, crawl) ==
        save_downloads(save_names(Requests(w0, crawl.calls), crawl),     \* 122-157
                       crawl.tables, home_subregion_url_table)
      run(c) ==
        IF c.r THEN Catch(try(c.w, Crawl), "collect_subregion_info_catalogue")
        ELSE NotActivated(c.w)
  IN IF w.exc # "" THEN w
     ELSE run(confirmed(w, "collect_subregion_info_catalogue", confirmation_required))

\* fetch_subregion_info_catalogue, lines 178-202
fetch_subregion_info_catalogue(w, catalogue_name, file_format, update) ==
  IF w.exc # "" THEN [w |-> w, none |-> TRUE, c |-> Blank]
  ELSE IF catalogue_name \notin {NameList, NameUrlDict, DownloadsCatalogue}
          \/ file_format \notin Formats
  THEN [w |-> Raise(w, "AssertionError"), none |-> TRUE, c |-> Blank]
  ELSE LET w1 == IF ~w.disk[<<catalogue_name, file_format>>].present \/ update
                 THEN collect_subregion_info_catalogue(w, TRUE)
                 ELSE w
       IN load(w1, catalogue_name, file_format)

\* collect_continents_subregion_tables, lines 206-224
collect_continents_subregion_tables(w, confirmation_required) ==
  LET c == confirmed(w, "collect_continents_subregion_tables", confirmation_required)
      w1 == Requests(c.w, 1 + Len(site[home_url]))
      w2 == save(w1, ContinentsTables, ".pickle", [Blank EXCEPT !.dict = ContinentTables])
  IN IF w.exc # "" THEN w
     ELSE IF c.r THEN Catch(w2, "collect_continents_subregion_tables") ELSE NotActivated(c.w)

\* fetch_continents_subregion_tables, lines 228-240
fetch_continents_subregion_tables(w, update) ==
  IF w.exc # "" THEN [w |-> w, none |-> TRUE, c |-> Blank]
  ELSE LET w1 == IF ~w.disk[<<ContinentsTables, ".pickle">>].present \/ update
                 THEN collect_continents_subregion_tables(w, TRUE)
                 ELSE w
       IN load(w1, ContinentsTables, ".pickle")

\* collect_region_subregion_tier, lines 244-298
collect_region_subregion_tier(w, confirmation_required) ==
  LET saved(w1, r) ==                                                    \* 291-294
        save(save(save(Requests(w1, r.calls),
                       RegionTier, ".pickle", [Blank EXCEPT !.dict = r.tier]),
                  RegionTier, ".json", [Blank EXCEPT !.dict = r.tier]),
             NonSubregionList, ".pickle", [Blank EXCEPT !.names = r.non])
      \* None has no items(): AttributeError at line 259
      try(subregion_tables) ==
        saved(IF subregion_tables.none THEN Raise(subregion_tables.w, "AttributeError")
              ELSE subregion_tables.w,
              compile_region_subregion_tier(subregion_tables.c.dict))
      run(c) ==
        IF c.r THEN Catch(try(fetch_continents_subregion_tables(c.w, TRUE)),
                          "collect_region_subregion_tier")
        ELSE NotActivated(c.w)
  IN IF w.exc # "" THEN w
     ELSE run(confirmed(w, "collect_region_subregion_tier", confirmation_required))

\* a fetch whose two assert statements are left out: an unknown file is
\* simply not on disk
fetch_without_asserts(w, catalogue_name, file_format, update) ==
  LET loaded(w1) ==
        IF <<catalogue_name, file_format>> \in Files
        THEN load(w1, catalogue_name, file_format)
        ELSE [w |-> Emit(w1, Event("print", "FileNotFoundError", 0)), none |-> TRUE,
              c |-> Blank]
  IN IF w.exc # "" THEN [w |-> w, none |-> TRUE, c |-> Blank]
     ELSE loaded(IF <<catalogue_name, file_format>> \notin Files
                    \/ ~w.disk[<<catalogue_name, file_format>>].present \/ update
                 THEN collect_region_subregion_tier(w, TRUE)
                 ELSE w)

\* fetch_region_subregion_tier, lines 302-324
fetch_region_subregion_tier(w, catalogue_name, file_format, update) ==
  IF w.exc # "" THEN [w |-> w, none |-> TRUE, c |-> Blank]
  ELSE IF catalogue_name \notin {RegionTier, NonSubregionList} \/ file_format \notin Formats
  THEN [w |-> Raise(w, "AssertionError"), none |-> TRUE, c |-> Blank]
  ELSE LET w1 == IF ~w.disk[<<catalogue_name, file_format>>].present \/ update
                 THEN collect_region_subregion_tier(w, TRUE)
                 ELSE w
       IN load(w1, catalogue_name, file_format)

(* --------------------- names, URLs and file paths --------------------- *)
\* regulate_input_subregion_name, lines 328-337: unpacking the None that
\* extractOne returns for no match raises TypeError
regulate_input_subregion_name(w, subregion_name) ==
  LET matched(subregion_names) ==
        LET m == extractOne(subregion_name, subregion_names.c.names)
        IN IF subregion_names.w.exc # "" THEN [w |-> subregion_names.w, name |-> 0]
           ELSE IF subregion_names.none \/ ~m.found
           THEN [w |-> Raise(subregion_names.w, "TypeError"), name |-> 0]
           ELSE [w |-> subregion_names.w, name |-> m.name]
  IN matched(fetch_subregion_info_catalogue(w, NameList, ".pickle", FALSE))

\* get_subregion_download_url, lines 341-358, for one osm_file_format; the
\* download URL of a row is identified with the page the row links to
get_subregion_download_url(w, subregion_name, update) ==
  LET cell(subregion_downloads_index_, n) ==                            \* 356
        LET cells == SelectSeq(subregion_downloads_index_.c.rows,
                               LAMBDA row : row.Subregion = n.name)
        IN IF n.w.exc # "" THEN [w |-> n.w, name |-> 0, url |-> 0]
           ELSE IF Len(cells) # 1 THEN [w |-> Raise(n.w, "KeyError"), name |-> 0, url |-> 0]
           ELSE [w |-> n.w, name |-> n.name, url |-> cells[1].SubregionURL]
      \* None has no set_index: AttributeError at line 353
      resolved(idx) ==
        cell(idx, regulate_input_subregion_name(
                    IF idx.none THEN Raise(idx.w, "AttributeError") ELSE idx.w,
                    subregion_name))
  IN resolved(fetch_subregion_info_catalogue(w, DownloadsCatalogue, ".pickle", update))

\* get_default_path_to_osm_file, lines 375-395: the path is fixed by the
\* download URL, so a downloaded file is identified with its URL
get_default_path_to_osm_file(w, subregion_name) ==
  LET path(u, subregion_names) ==
        [w |-> IF subregion_names.none THEN Raise(subregion_names.w, "TypeError")
               ELSE subregion_names.w,
         path |-> u.url]
      named(u) == path(u, fetch_subregion_info_catalogue(u.w, NameList, ".pickle", FALSE))
  IN named(get_subregion_download_url(w, subregion_name, FALSE))

\* retrieve_subregion_names_from, lines 399-437.  The catalogues are fetched
\* as lines 421, 425 and 335 fetch them; once they are loaded the nested
\* calls of line 433 load the same files again, which Expand follows.
retrieve_subregion_names_from(w, subregion_name, ord) ==
  LET returned(w1, r) ==
        IF ~r.ok THEN [w |-> Raise(w1, "Error"), names |-> <<>>]
        ELSE [w |-> w1, names |-> r.names]
      expanded(no_subregion_list, region_subregion_index, subregion_names) ==
        IF no_subregion_list.none \/ region_subregion_index.none \/ subregion_names.none
        THEN [w |-> Raise(subregion_names.w, "TypeError"), names |-> <<>>]
        ELSE returned(subregion_names.w,
                      Expand(subregion_name, region_subregion_index.c.dict,
                             no_subregion_list.c.names, subregion_names.c.names, ord, NU + 1))
      indexed(no_subregion_list, region_subregion_index) ==
        expanded(no_subregion_list, region_subregion_index,
                 fetch_subregion_info_catalogue(region_subregion_index.w, NameList, ".pickle",
                                                FALSE))
      listed(no_subregion_list) ==
        IF subregion_name = <<>>
        THEN IF no_subregion_list.none          \* dict.fromkeys(None): TypeError
             THEN [w |-> Raise(no_subregion_list.w, "TypeError"), names |-> <<>>]
             ELSE [w |-> no_subregion_list.w,
                   names |-> list_fromkeys(no_subregion_list.c.names)]
        ELSE indexed(no_subregion_list,
                     fetch_region_subregion_tier(no_subregion_list.w, RegionTier, ".pickle",
                                                 FALSE))
  IN IF w.exc # "" THEN [w |-> w, names |-> <<>>]
     ELSE listed(fetch_region_subregion_tier(w, NonSubregionList, ".pickle", FALSE))

(* ---------------------------- file downloads -------------------------- *)
\* pydriosm.utils.download: the file is fetched and written to path_to_file,
\* or an error is raised and the file is left as it was
download(w, url, path_to_file) ==
  IF w.exc # "" THEN w
  ELSE IF w.fault.dl = w.ndl + 1
  THEN Raise(Emit([w EXCEPT !.ndl = @ + 1], Event("download", "failed", url)), "DownloadError")
  ELSE Emit([w EXCEPT !.ndl = @ + 1, !.osm[path_to_file] = "new"],
            Event("download", "done", url))

\* a file is never taken to be available
never_available(isfile, update) == FALSE

\* os.path.isfile(path_to_file) and not update, line 464
already_available(isfile, update) == isfile /\ ~update

\* the download without the try around it
download_uncaught(w, url, path_to_file) == download(w, url, path_to_file)

\* the try of lines 475-480: a failed download is reported, not raised
try_download(w, url, path_to_file) ==
  Catch(download(w, url, path_to_file), "download")

\* what w logged after its first from events carries i
Tagged(w, from, i) ==
  [w EXCEPT !.log = [j \in 1..Len(@) |-> IF j > from THEN [@[j] EXCEPT !.i = i] ELSE @[j]]]

\* the body of the for loop of lines 451-482 for the i-th name; what it logs
\* carries i
download_one(w, sub_reg_name, i, update, download_confirmation_required, verbose) ==
  LET asked(c, url, path_to_file) ==                                    \* 471-482
        IF c.r THEN try_download(c.w, url, path_to_file) ELSE NotActivated(c.w)
      checked(w1, isfile, url, path_to_file) ==                         \* 464-482
        IF already_available(isfile, update)
        THEN IF verbose THEN Emit(w1, Event("print", "already available", path_to_file))
             ELSE w1
        ELSE asked(confirmed(w1, "download", download_confirmation_required),
                   url, path_to_file)
      found(w0, isfile, url, path_to_file) ==
        checked(Emit(w0, Event("isfile", IF isfile THEN "True" ELSE "False", path_to_file)),
                isfile, url, path_to_file)
      located(u, p) ==
        IF p.w.exc # "" THEN p.w
        ELSE found(p.w, p.w.osm[p.path] # "absent", u.url, p.path)
      resolved(u) == located(u, get_default_path_to_osm_file(u.w, u.name))     \* 456-458
  IN Tagged(resolved(get_subregion_download_url(w, sub_reg_name, FALSE)),   \* 454
            Len(w.log), i)

RECURSIVE download_loop(_, _, _, _, _, _)
download_loop(w, subregion_name, i, update, download_confirmation_required, verbose) ==
  IF i > Len(subregion_name) \/ w.exc # "" THEN w
  ELSE download_loop(
         download_one(w, subregion_name[i], i, update, download_confirmation_required, verbose),
         subregion_name, i + 1, update, download_confirmation_required, verbose)

\* download_subregion_osm_file, lines 441-482, with download_dir=None
download_subregion_osm_file(w, subregion_name, update, download_confirmation_required, verbose) ==
  download_loop(w, subregion_name, 1, update, download_confirmation_required, verbose)

\* interval_sec=5, line 487
interval_sec_default == 5

\* if interval_sec: time.sleep(interval_sec), lines 501-502
pause(w, interval_sec) ==
  IF w.exc = "" /\ interval_sec # 0 THEN Emit(w, Event("sleep", "", interval_sec)) ELSE w

\* the batch download that hands its own flag on to the per-file prompt
download_sub_subregion_per_file(w, subregion_name, update, download_confirmation_required, interval_sec, ord) ==
  LET batch(c, subregions) ==
        IF c.r
        THEN pause(download_subregion_osm_file(c.w, subregions, update,
                                               download_confirmation_required, TRUE),
                   interval_sec)
        ELSE c.w
      expanded(subregions) ==
        [w |-> IF subregions.w.exc # "" THEN subregions.w
               ELSE batch(confirmed(subregions.w, "download_batch",
                                    download_confirmation_required),
                          subregions.names),
         subregions |-> subregions.names]
  IN expanded(retrieve_subregion_names_from(w, subregion_name, ord))

\* download_sub_subregion_osm_file, lines 486-502
download_sub_subregion_osm_file(w, subregion_name, update, download_confirmation_required, interval_sec, ord) ==
  LET batch(c, subregions) ==
        IF c.r
        THEN pause(download_subregion_osm_file(c.w, subregions, update, FALSE, TRUE),
                   interval_sec)
        ELSE c.w
      expanded(subregions) ==
        [w |-> IF subregions.w.exc # "" THEN subregions.w
               ELSE batch(confirmed(subregions.w, "download_batch",
                                    download_confirmation_required),
                          subregions.names),
         subregions |-> subregions.names]
  IN expanded(retrieve_subregion_names_from(w, subregion_name, ord))

(* --------------------------- the environment -------------------------- *)
\* the sites the stateful specifications run on: page u is listed by page
\* (u - 1) \div 2, no page is listed twice
SysSites ==
  {PagesOf(s) : s \in {t \in [par : {[u \in URLs |-> (u - 1) \div 2]}, nm : Labelings,
                               al : {[p |-> 0, u |-> 0]}] : ValidShape(t)}}

Answers == [1..MaxPrompts -> BOOLEAN]
AllYes == [i \in 1..MaxPrompts |-> TRUE]

\* one page request or one save of the call fails, or the home page's table
\* is not obtained at line 160, or nothing goes wrong
CollectFaults ==
  {f \in [net : 0..(NU + 3), sv : 0..5, dl : {0}, reset : {0, 1}] :
     Cardinality({x \in {"net", "sv", "reset"} : f[x] # 0}) <= 1}
\* the first page request or one of the downloads fails, or nothing does
DownloadFaults ==
  {f \in [net : {0, 1}, sv : {0}, dl : 0..MaxArgs, reset : {0}] : f.net = 0 \/ f.dl = 0}
\* without the per-file confirmation download_subregion_osm_file asks at most
\* once (for the recollection of the catalogue): one answer is all it reads
AnswersTo(download_confirmation_required) ==
  IF download_confirmation_required THEN Answers
  ELSE {[i \in 1..MaxPrompts |-> b] : b \in BOOLEAN}

(* ------------------------------ the calls ----------------------------- *)
\* last is the call that just ended: its arguments, what it did (log), the
\* exception it raised to its caller (exc) and the list it returned (ret);
\* for a fetch, the catalogue asked for, and whether None (none) or the
\* content of the cache file (got) was returned
Idle ==
  [op |-> "idle", names |-> <<>>, conf |-> FALSE, update |-> FALSE, interval |-> 0,
   log |-> <<>>, exc |-> "", ret |-> <<>>,
   catalogue |-> "", format |-> "", none |-> TRUE, got |-> Blank]

Ended(op, names, conf, update, interval, w, ret) ==
  /\ disk' = w.disk
  /\ osm' = w.osm
  /\ last' = [Idle EXCEPT !.op = op, !.names = names, !.conf = conf, !.update = update,
                          !.interval = interval, !.log = w.log, !.exc = w.exc,
                          !.ret = ret]
  /\ UNCHANGED <<site, crawling>>

CallCollectInfo(conf, answers, fault) ==
  /\ last.op = "idle"
  /\ \E w \in {collect_subregion_info_catalogue(World(disk, osm, answers, fault), conf)} :
       Ended("collect_subregion_info_catalogue", <<>>, conf, FALSE, 0, w, <<>>)

CallCollectContinents(conf, answers, fault) ==
  /\ last.op = "idle"
  /\ \E w \in {collect_continents_subregion_tables(World(disk, osm, answers, fault), conf)} :
       Ended("collect_continents_subregion_tables", <<>>, conf, FALSE, 0, w, <<>>)

CallCollectTier(conf, answers, fault) ==
  /\ last.op = "idle"
  /\ \E w \in {collect_region_subregion_tier(World(disk, osm, answers, fault), conf)} :
       Ended("collect_region_subregion_tier", <<>>, conf, FALSE, 0, w, <<>>)

CallRetrieve(names, ord, answers, fault) ==
  /\ last.op = "idle"
  /\ \E r \in {retrieve_subregion_names_from(World(disk, osm, answers, fault), names, ord)} :
       Ended("retrieve_subregion_names_from", names, FALSE, FALSE, 0, r.w, r.names)

CallDownload(names, update, conf, answers, fault) ==
  /\ last.op = "idle"
  /\ \E w \in {download_subregion_osm_file(World(disk, osm, answers, fault), names, update,
                                           conf, TRUE)} :
       Ended("download_subregion_osm_file", names, conf, update, 0, w, <<>>)

CallDownloadSub(names, update, conf, interval, ord, answers, fault) ==
  /\ last.op = "idle"
  /\ \E r \in {download_sub_subregion_osm_file(World(disk, osm, answers, fault), names, update,
                                               conf, interval, ord)} :
       Ended("download_sub_subregion_osm_file", names, conf, update, interval, r.w,
             r.subregions)

Collectors ==
  {"collect_subregion_info_catalogue", "collect_continents_subregion_tables",
   "collect_region_subregion_tier"}

\* a collector has returned to the session, which may make the next call
Return ==
  /\ last.op \in Collectors
  /\ last' = Idle
  /\ UNCHANGED <<site, disk, osm, crawling>>

\* a fetch has ended: what it returned (r.none, r.c) is recorded
EndedFetch(op, catalogue_name, file_format, update, r) ==
  /\ disk' = r.w.disk
  /\ osm' = r.w.osm
  /\ last' = [Idle EXCEPT !.op = op, !.update = update, !.log = r.w.log, !.exc = r.w.exc,
                          !.catalogue = catalogue_name, !.format = file_format,
                          !.none = r.none, !.got = r.c]
  /\ UNCHANGED <<site, crawling>>

CallFetchInfo(catalogue_name, file_format, update, answers, fault) ==
  /\ last.op = "idle"
  /\ \E r \in {fetch_subregion_info_catalogue(World(disk, osm, answers, fault),
                                               catalogue_name, file_format, update)} :
       EndedFetch("fetch_subregion_info_catalogue", catalogue_name, file_format, update, r)

CallFetchTier(catalogue_name, file_format, update, answers, fault) ==
  /\ last.op = "idle"
  /\ \E r \in {fetch_region_subregion_tier(World(disk, osm, answers, fault),
                                            catalogue_name, file_format, update)} :
       EndedFetch("fetch_region_subregion_tier", catalogue_name, file_format, update, r)

Fetches == {"fetch_subregion_info_catalogue", "fetch_region_subregion_tier"}

\* a fetch has returned to the session, or its AssertionError has been
\* handled there: the session may make the next call
FetchReturn ==
  /\ last.op \in Fetches
  /\ last' = Idle
  /\ UNCHANGED <<site, disk, osm, crawling>>

(* --------- Spec: the collectors, called again and again --------------- *)
Init ==
  /\ site \in SysSites
  /\ disk = EmptyDisk
  /\ osm = NoFiles
  /\ last = Idle
  /\ crawling = NotCrawling

CollectInfo ==
  \E conf \in BOOLEAN, a \in Answers, f \in CollectFaults : CallCollectInfo(conf, a, f)
CollectContinents ==
  \E conf \in BOOLEAN, a \in Answers, f \in CollectFaults : CallCollectContinents(conf, a, f)
CollectTier ==
  \E conf \in BOOLEAN, a \in Answers, f \in CollectFaults : CallCollectTier(conf, a, f)

Next == CollectInfo \/ CollectContinents \/ CollectTier \/ Return

Spec == Init /\ [][Next]_vars

(* --------- SpecFn: every site, the collectors undisturbed, retrieval -- *)
InitFn ==
  /\ site \in Sites
  /\ disk = EmptyDisk
  /\ osm = NoFiles
  /\ last = Idle
  /\ crawling = NotCrawling

FnCollectInfo == CallCollectInfo(FALSE, <<>>, NoFault)
FnCollectTier == CallCollectTier(FALSE, AllYes, NoFault)
FnRetrieve ==
  \E names \in SeqsUpTo(NameIds, MaxArgs), ord \in SetOrders :
    CallRetrieve(names, ord, <<>>, NoFault)

NextFn == FnCollectInfo \/ FnCollectTier \/ FnRetrieve \/ Return

SpecFn == InitFn /\ [][NextFn]_vars

(* --------- SpecDownload: a session that ends with a download call ----- *)
\* Files of an earlier session may exist beside an empty cache (the cache
\* lives in the package's data directory, the files where the user keeps them).
PlainSite == PagesOf([par |-> [u \in URLs |-> (u - 1) \div 2], nm |-> [u \in URLs |-> u],
                      al |-> [p |-> 0, u |-> 0]])

InitDownload ==
  /\ site = PlainSite
  /\ disk = EmptyDisk
  /\ osm \in {NoFiles, [u \in URLs |-> IF u = NU THEN "old" ELSE "absent"],
              [u \in URLs |-> "old"]}
  /\ last = Idle
  /\ crawling = NotCrawling

\* the names asked for: a continent and the two last regions of the site,
\* the last of which may have its file on disk
DownloadNames == {1, NU - 1, NU}

Download ==
  \E names \in SeqsUpTo(DownloadNames, MaxArgs), update \in BOOLEAN, conf \in BOOLEAN,
     f \in DownloadFaults :
    \E a \in AnswersTo(conf) : CallDownload(names, update, conf, a, f)

DownloadSub ==
  \E names \in SeqsUpTo(NameIds, 1), update \in BOOLEAN, conf \in BOOLEAN,
     interval \in {0, interval_sec_default}, ord \in SetOrders,
     a \in Answers, f \in DownloadFaults :
    CallDownloadSub(names, update, conf, interval, ord, a, f)

NextDownload == FnCollectInfo \/ FnCollectTier \/ Return \/ Download \/ DownloadSub

SpecDownload == InitDownload /\ [][NextDownload]_vars

(* --------- SpecFetch: the two fetches and their collectors ------------ *)
\* the catalogue names and file formats a caller may pass: every name and
\* format of the cache, and one of each that no fetch knows
CatalogueNames == Catalogues \cup {"GeoFabrik-subregion-names"}
FileFormats == Formats \cup {".csv"}

InitFetch ==
  /\ site \in SysSites
  /\ disk = EmptyDisk
  /\ osm = NoFiles
  /\ last = Idle
  /\ crawling = NotCrawling

FetchInfo ==
  \E catalogue_name \in CatalogueNames, file_format \in FileFormats, update \in BOOLEAN,
     a \in AnswersTo(FALSE), f \in CollectFaults :
    CallFetchInfo(catalogue_name, file_format, update, a, f)

FetchTier ==
  \E catalogue_name \in CatalogueNames, file_format \in FileFormats, update \in BOOLEAN,
     a \in AnswersTo(FALSE), f \in CollectFaults :
    CallFetchTier(catalogue_name, file_format, update, a, f)

NextFetch == FetchInfo \/ FetchTier \/ FetchReturn \/ CollectInfo \/ CollectTier \/ Return

SpecFetch == InitFetch /\ [][NextFetch]_vars

(* --------- SpecCrawl: the crawl, pass by pass, on sites of any shape -- *)
\* a tree of pages with one more link: page p also lists page u, under the
\* name u has.  When u is p or a page above p the links form a cycle;
\* otherwise u, with all that is below it, is published under two parents.
WithLink(pages, p, u) ==
  [pages EXCEPT ![p] = Append(@, [Subregion |-> u, SubregionURL |-> u])]

LinkedSites ==
  {WithLink(PagesOf(t), p, u) :
     t \in [par : ParFns, nm : {[v \in URLs |-> v]}, al : {[p |-> 0, u |-> 0]}],
     p \in 0..NU, u \in URLs}

\* the names within one table are unique (spec section 3, Subregion Table)
CrawlSites ==
  Sites \cup {pages \in LinkedSites :
                \A p \in 0..NU : ~HasRepeats(Subregion(pages[p]))}

InitCrawl ==
  /\ site \in CrawlSites
  /\ disk = EmptyDisk
  /\ osm = NoFiles
  /\ last = Idle
  /\ crawling = NotCrawling

NextCrawl == CrawlStart \/ CrawlPass \/ CrawlEnd

SpecCrawl == InitCrawl /\ [][NextCrawl]_vars

\* the collector runs in one thread, statement after statement, and every
\* page request returns or raises: a pass that can be made is made
SpecCrawlLive == SpecCrawl /\ WF_vars(NextCrawl)

(* ======================= properties of the calls ====================== *)
OnDisk(catalogue_name) == disk[<<catalogue_name, ".pickle">>]

HasEvent(e, a) == \E j \in DOMAIN last.log : last.log[j].e = e /\ last.log[j].a = a
Saved(catalogue_name, file_format) == HasEvent("save", catalogue_name \o file_format)
SavedAny == \E j \in DOMAIN last.log : last.log[j].e = "save"
FailedIn(who) == HasEvent("failed", who)
Count(e, a) == Cardinality({j \in DOMAIN last.log : last.log[j].e = e /\ last.log[j].a = a})

HasDuplicates(s) == \E i, j \in DOMAIN s : i < j /\ s[i] = s[j]

\* every entry of a tier, at any depth
RECURSIVE EntriesOf(_)
EntriesOf(d) ==
  UNION {{d[i]} \cup EntriesOf(d[i].items) : i \in DOMAIN d}

\* the terminal regions below an entry, or the entry's own name when it is terminal
LeavesUnder(e) ==
  IF e.kind = "Dict" THEN {x.k : x \in {y \in EntriesOf(e.items) : y.kind # "Dict"}}
  ELSE {e.k}

(* ---------------------------------------------------------------------- *)
\* C2: when the tier, the non-subregion list and the name list are cached,
\* retrieve_subregion_names_from(N) for a key N of the tier returns exactly
\* the terminal regions below N's entry (N itself when N is terminal), none
\* of them twice - also when a name occurs under more than one parent.
C2_ExactLeaves ==
  (/\ last.op = "retrieve_subregion_names_from"
   /\ Len(last.names) = 1
   /\ ~HasEvent("prompt", "collect_region_subregion_tier")
   /\ ~HasEvent("prompt", "collect_subregion_info_catalogue")
   /\ \E e \in EntriesOf(OnDisk(RegionTier).c.dict) : e.k = last.names[1])
  => /\ last.exc = ""
     /\ ~HasDuplicates(last.ret)
     /\ \E e \in EntriesOf(OnDisk(RegionTier).c.dict) :
          e.k = last.names[1] /\ Range(last.ret) = LeavesUnder(e)

\* the same on the tiers in which no name occurs twice
NamesUnique(d) == \A e, f \in EntriesOf(d) : e.k = f.k => e = f
C2_ExactLeavesUniqueNames ==
  NamesUnique(OnDisk(RegionTier).c.dict) => C2_ExactLeaves

(* ---------------------------------------------------------------------- *)
\* C3 as claimed: called with no arguments and the non-subregion list cached,
\* retrieve_subregion_names_from returns the persisted list unchanged, with
\* the same multiplicities and order.
C3_ListUnchanged ==
  (/\ last.op = "retrieve_subregion_names_from"
   /\ last.names = <<>>
   /\ ~HasEvent("prompt", "collect_region_subregion_tier"))
  => (last.exc = "" /\ last.ret = OnDisk(NonSubregionList).c.names)

FirstAt(s, x) == CHOOSE i \in DOMAIN s : s[i] = x /\ \A j \in 1..(i - 1) : s[j] # x

\* C3 as amended: called with no arguments and the non-subregion list cached,
\* retrieve_subregion_names_from returns the names of the persisted list, each
\* once, in the order of their first occurrence in it; so the list itself
\* when it holds no name twice.
C3_ListDeduplicated ==
  (/\ last.op = "retrieve_subregion_names_from"
   /\ last.names = <<>>
   /\ ~HasEvent("prompt", "collect_region_subregion_tier"))
  => LET persisted == OnDisk(NonSubregionList).c.names
     IN /\ last.exc = ""
        /\ Range(last.ret) = Range(persisted)
        /\ ~HasDuplicates(last.ret)
        /\ \A i, j \in DOMAIN last.ret :
             i < j => FirstAt(persisted, last.ret[i]) < FirstAt(persisted, last.ret[j])
        /\ ~HasDuplicates(persisted) => last.ret = persisted

C3_Witness ==
  /\ last.op = "retrieve_subregion_names_from"
  /\ last.names = <<>>
  /\ ~HasEvent("prompt", "collect_region_subregion_tier")
  /\ last.exc = ""
  /\ HasDuplicates(OnDisk(NonSubregionList).c.names)
  /\ Len(last.ret) >= 2

(* ---------------------------------------------------------------------- *)
SuccessfulInfoRun ==
  /\ last.op = "collect_subregion_info_catalogue"
  /\ Saved(DownloadsCatalogue, ".json")

RowsOf(name) ==
  {j \in DOMAIN OnDisk(DownloadsCatalogue).c.rows :
     OnDisk(DownloadsCatalogue).c.rows[j].Subregion = name}

\* C7: after a successful run of collect_subregion_info_catalogue the
\* downloads catalogue holds exactly one row for every name of the persisted
\* name list (the continents included) and no two rows share a name.
C7_OneRowPerName ==
  SuccessfulInfoRun =>
    /\ \A name \in Range(OnDisk(NameList).c.names) : Cardinality(RowsOf(name)) = 1
    /\ IndexIsUnique(OnDisk(DownloadsCatalogue).c.rows)

\* the part of it that every successful run keeps: no two rows share a name
\* and every row's name is a name of the persisted name list
C7_RowsAreUnique ==
  SuccessfulInfoRun =>
    /\ IndexIsUnique(OnDisk(DownloadsCatalogue).c.rows)
    /\ \A j \in DOMAIN OnDisk(DownloadsCatalogue).c.rows :
         OnDisk(DownloadsCatalogue).c.rows[j].Subregion \in Range(OnDisk(NameList).c.names)

(* ---------------------------------------------------------------------- *)
SuccessfulTierRun ==
  /\ last.op = "collect_region_subregion_tier"
  /\ Saved(NonSubregionList, ".pickle")

\* C8: in the pair (tier, non-subregion list) that one run of
\* compile_region_subregion_tier produces, every key whose value is terminal,
\* at any depth, is in the non-subregion list, and every value is a nested
\* mapping or the terminal marker.
C8_TierInvariant ==
  SuccessfulTierRun =>
    \A e \in EntriesOf(OnDisk(RegionTier).c.dict) :
      /\ e.kind \in {"Dict", "None"}
      /\ e.kind = "None" => e.k \in Range(OnDisk(NonSubregionList).c.names)

\* a tier three levels deep with a terminal region at the bottom
C8_Witness ==
  /\ SuccessfulTierRun
  /\ \E e \in EntriesOf(OnDisk(RegionTier).c.dict) :
       /\ e.kind = "Dict"
       /\ \E f \in Range(e.items) :
            f.kind = "Dict" /\ \E g \in Range(f.items) : g.kind = "None"

(* ---------------------------------------------------------------------- *)
\* C4: a confirmed run of collect_subregion_info_catalogue in which an error
\* occurs, at any step, prints the diagnostic and persists nothing: no cache
\* artifact is created or overwritten by the run.
C4_FailurePersistsNothing ==
  (/\ last.op = "collect_subregion_info_catalogue"
   /\ FailedIn("collect_subregion_info_catalogue"))
  => ~SavedAny

(* ---------------------------------------------------------------------- *)
\* C5: a confirmed run of collect_region_subregion_tier in which an error
\* occurs aborts with the diagnostic and without persistence: neither the
\* tier (either form) nor the non-subregion list nor any other cache artifact
\* is written by the run.
C5_FailurePersistsNothing ==
  (/\ last.op = "collect_region_subregion_tier"
   /\ FailedIn("collect_region_subregion_tier"))
  => ~SavedAny

(* ---------------------------------------------------------------------- *)
\* C6: a collector called with confirmation_required = False asks the
\* operator nothing at any point of the call, the operations it invokes
\* included, and takes the collecting path.
C6_NoPromptWhenNotRequired ==
  (last.op \in Collectors /\ ~last.conf) =>
    /\ \A j \in DOMAIN last.log : last.log[j].e # "prompt"
    /\ ~HasEvent("print", "not activated")

(* ---------------------------------------------------------------------- *)
\* what the call logged while it processed its i-th name
EventsOf(log, i) == {j \in DOMAIN log : log[j].i = i}
\* the i-th name's file was found on disk
FoundFile(log, i) == \E j \in EventsOf(log, i) : log[j].e = "isfile" /\ log[j].a = "True"
PathOf(log, i) == log[CHOOSE j \in EventsOf(log, i) : log[j].e = "isfile"].n
\* an earlier name of the call has had that file downloaded
DownloadedBefore(log, i) ==
  \E j \in DOMAIN log :
    /\ log[j].e = "download" /\ log[j].a = "done"
    /\ log[j].n = PathOf(log, i) /\ log[j].i < i
Cached(d, catalogue_name) == d[<<catalogue_name, ".pickle">>].present

\* C1 as claimed: in download_subregion_osm_file with update = False, the
\* processing of a name whose file is already on disk makes no network call,
\* neither a file download nor a page request of a catalogue crawl, whatever
\* the state of the catalogue cache, and leaves the file as it was.
C1_NoNetworkCall ==
  (last.op = "download_subregion_osm_file" /\ ~last.update) =>
    \A i \in 1..Len(last.names) :
      FoundFile(last.log, i) =>
        /\ \A j \in EventsOf(last.log, i) : last.log[j].e \notin {"request", "download"}
        /\ osm[PathOf(last.log, i)] = IF DownloadedBefore(last.log, i) THEN "new" ELSE "old"

\* C1 as amended: in download_subregion_osm_file with update = False, the
\* processing of a name whose file is already on disk downloads no file and
\* leaves the file as it was; it requests pages only in a catalogue crawl
\* that the operator has confirmed while that name was processed, and when
\* the downloads catalogue and the name list are cached before the call there
\* is no such prompt and no page request in the whole call.
C1_NoDownloadAndNoCrawlWhenCached ==
  [][(last'.op = "download_subregion_osm_file" /\ ~last'.update) =>
       /\ \A i \in 1..Len(last'.names) :
            FoundFile(last'.log, i) =>
              /\ \A j \in EventsOf(last'.log, i) : last'.log[j].e # "download"
              /\ osm'[PathOf(last'.log, i)] =
                   IF DownloadedBefore(last'.log, i) THEN "new" ELSE osm[PathOf(last'.log, i)]
              /\ \A j \in EventsOf(last'.log, i) :
                   last'.log[j].e = "request" =>
                     \E k \in 1..(j - 1) :
                       /\ last'.log[k] = [e |-> "prompt", n |-> 1, i |-> i,
                                          a |-> "collect_subregion_info_catalogue"]
       /\ (Cached(disk, DownloadsCatalogue) /\ Cached(disk, NameList)) =>
            \A j \in DOMAIN last'.log :
              /\ last'.log[j].e # "request"
              /\ last'.log[j].e = "prompt" => last'.log[j].a = "download"]_vars

\* two names in one call: the first is downloaded, the second is found on
\* disk and skipped, the catalogue being cached
C1_Witness ==
  /\ last.op = "download_subregion_osm_file" /\ ~last.update
  /\ Len(last.names) = 2
  /\ FoundFile(last.log, 2)
  /\ \E j \in EventsOf(last.log, 1) : last.log[j].e = "download" /\ last.log[j].a = "done"
  /\ \A j \in DOMAIN last.log : last.log[j].e # "request"

(* ---------------------------------------------------------------------- *)
DownloadFailed(log, i) ==
  \E j \in EventsOf(log, i) : log[j].e = "download" /\ log[j].a = "failed"

\* C9: in download_subregion_osm_file called with several names, a failed
\* download of one name is caught and reported and the loop goes on: every
\* later name is checked for its file, confirmed when confirmation is
\* required and downloaded, in the order given.
C9_FailureIsIsolated ==
  last.op = "download_subregion_osm_file" =>
    \A i \in 1..Len(last.names) :
      DownloadFailed(last.log, i) =>
        /\ last.exc = ""
        /\ \E j \in EventsOf(last.log, i) :
             last.log[j].e = "failed" /\ last.log[j].a = "download"
        /\ \A j, k \in DOMAIN last.log : j < k => last.log[j].i <= last.log[k].i
        /\ \A m \in (i + 1)..Len(last.names) :
             /\ \E j \in EventsOf(last.log, m) : last.log[j].e = "isfile"
             /\ (~FoundFile(last.log, m) \/ last.update) =>
                  /\ last.conf =>
                       \E j \in EventsOf(last.log, m) :
                         last.log[j].e = "prompt" /\ last.log[j].a = "download"
                  /\ (\/ ~last.conf
                      \/ \E j \in EventsOf(last.log, m) :
                           last.log[j] = [e |-> "prompt", a |-> "download", n |-> 1, i |-> m])
                     => \E j \in EventsOf(last.log, m) : last.log[j].e = "download"

\* the download of the first of two names fails, the second is downloaded
C9_Witness ==
  /\ last.op = "download_subregion_osm_file"
  /\ Len(last.names) = 2
  /\ DownloadFailed(last.log, 1)
  /\ \E j \in EventsOf(last.log, 2) : last.log[j].e = "download" /\ last.log[j].a = "done"

(* ---------------------------------------------------------------------- *)
BatchPrompts == {j \in DOMAIN last.log : last.log[j].e = "prompt" /\ last.log[j].a = "download_batch"}
Sleeps == {j \in DOMAIN last.log : last.log[j].e = "sleep"}
Transfers == {j \in DOMAIN last.log : last.log[j].e \in {"isfile", "download"}}
BatchAccepted == \E j \in BatchPrompts : last.log[j].n = 1
NoPerFilePrompt == \A j \in DOMAIN last.log : ~(last.log[j].e = "prompt" /\ last.log[j].a = "download")
HandedOver(m) == \E j \in EventsOf(last.log, m) : last.log[j].e = "isfile"

Accepted(op, catalogue_name, file_format) ==
  /\ file_format \in {".pickle", ".json"}
  /\ \/ /\ op = "fetch_subregion_info_catalogue"
        /\ catalogue_name \in {NameList, NameUrlDict, DownloadsCatalogue}
     \/ /\ op = "fetch_region_subregion_tier"
        /\ catalogue_name \in {RegionTier, NonSubregionList}

Rejected ==
  /\ last.op \in Fetches
  /\ ~Accepted(last.op, last.catalogue, last.format)

\* C11: a fetch called with a catalogue name or a file format outside its
\* allowed set ends with an AssertionError, whatever update is, and before
\* any side effect: no prompt, no request, no save and no print is made, the
\* cache is left as it was and nothing is read from it.
C11_AssertsBeforeSideEffects ==
  [][Rejected' /\ last.op = "idle" =>
       /\ last'.exc = "AssertionError"
       /\ last'.log = <<>>
       /\ disk' = disk /\ osm' = osm
       /\ last'.none /\ last'.got = Blank]_vars

\* a fetch of the subregion information is asked, with update = True, for
\* the tier, which is in the cache, and fails
C11_Witness ==
  /\ Rejected
  /\ last.op = "fetch_subregion_info_catalogue"
  /\ last.catalogue = RegionTier /\ last.format = ".pickle"
  /\ last.update
  /\ last.exc = "AssertionError"
  /\ disk[<<RegionTier, ".pickle">>].present

(* ---------------------------------------------------------------------- *)
\* the immediate result for the input names: for each, left to right, the
\* keys of its entry in tier order, or the name itself when it is terminal
ImmediateResult(subregion_name, tier, name_list) ==
  Flatten([i \in 1..Len(subregion_name) |->
             find_subregions(extractOne(subregion_name[i], name_list).name, tier)[1]])

\* the names in the order in which the expansion produces them: the terminal
\* names of the immediate result as they stand there, then what the names in
\* need of expansion expand to, one after the other
RECURSIVE FirstProduced(_, _, _, _, _)
FirstProduced(subregion_name, tier, no_subregion_list, name_list, depth) ==
  IF depth = 0 THEN <<>>
  ELSE LET res == ImmediateResult(subregion_name, tier, name_list)
           kept == SelectSeq(res, LAMBDA x : x \in Range(no_subregion_list))
           check_list == SelectSeq(res, LAMBDA x : x \notin Range(no_subregion_list))
       IN kept \o Flatten([i \in 1..Len(check_list) |->
                             FirstProduced(<<check_list[i]>>, tier, no_subregion_list,
                                           name_list, depth - 1)])

RetrievedFromCache ==
  /\ last.op = "retrieve_subregion_names_from"
  /\ last.names # <<>>
  /\ ~HasEvent("prompt", "collect_region_subregion_tier")
  /\ ~HasEvent("prompt", "collect_subregion_info_catalogue")
  /\ last.exc = ""

\* C12: for one or more input names retrieve_subregion_names_from returns
\* the union of the expansions of the inputs, each name once, in the order
\* in which the names were first produced (input names left to right,
\* children in tier order) - also when some immediate children need further
\* expansion.  Stated for the sites on which no name occurs twice.
C12_FirstSeenOrder ==
  (RetrievedFromCache /\ ~HasDuplicates(OnDisk(NameList).c.names)) =>
    last.ret = Dedup(FirstProduced(last.names, OnDisk(RegionTier).c.dict,
                                   OnDisk(NonSubregionList).c.names,
                                   OnDisk(NameList).c.names, NU + 1))

\* the same for the calls in which no immediate child needs expansion
NoneToExpand ==
  \A x \in Range(ImmediateResult(last.names, OnDisk(RegionTier).c.dict,
                                  OnDisk(NameList).c.names)) :
    x \in Range(OnDisk(NonSubregionList).c.names)
C12_FirstSeenOrderWithoutExpansion ==
  (RetrievedFromCache /\ NoneToExpand) =>
    last.ret = Dedup(ImmediateResult(last.names, OnDisk(RegionTier).c.dict,
                                     OnDisk(NameList).c.names))

(* ---------------------------------------------------------------------- *)
\* the file a fetch is asked for, and the file its collector saves last
\* (lines 168, 294): that one is written only by a run that has saved all
AskedFile(l) == <<l.catalogue, l.format>>
SavedLast(op) ==
  IF op = "fetch_subregion_info_catalogue" THEN <<DownloadsCatalogue, ".json">>
  ELSE <<NonSubregionList, ".pickle">>
\* the call's collector has completed a run successfully, in this call ...
CollectedIn(l) ==
  \E j \in DOMAIN l.log :
    l.log[j].e = "save" /\ l.log[j].a = SavedLast(l.op)[1] \o SavedLast(l.op)[2]
\* ... or at some time before the call
CollectedBefore(op) == disk[SavedLast(op)].present

FetchAccepted ==
  /\ last.op = "idle"
  /\ last'.op \in Fetches
  /\ Accepted(last'.op, last'.catalogue, last'.format)

Unsaved == {<<NameList, ".json">>, <<NonSubregionList, ".json">>}

\* C13: for every catalogue name and file format a fetch accepts, once the
\* fetch's collector has completed a run successfully the file asked for is
\* in the cache: the fetch that triggered the run returns the catalogue, and
\* a later fetch of the same file with update = False returns it from the
\* cache without a prompt, a request or a save.
C13_CollectedThenCached ==
  [][FetchAccepted =>
       /\ CollectedIn(last') =>
            /\ disk'[AskedFile(last')].present
            /\ ~last'.none /\ last'.got = disk'[AskedFile(last')].c
       /\ (CollectedBefore(last'.op) /\ ~last'.update) =>
            /\ last'.log = <<>>
            /\ ~last'.none /\ last'.got = disk[AskedFile(last')].c]_vars

\* the same for the files that the collectors do save
C13_CollectedThenCachedIfSaved ==
  [][(FetchAccepted /\ AskedFile(last') \notin Unsaved) =>
       /\ CollectedIn(last') =>
            /\ disk'[AskedFile(last')].present
            /\ ~last'.none /\ last'.got = disk'[AskedFile(last')].c
       /\ (CollectedBefore(last'.op) /\ ~last'.update) =>
            /\ last'.log = <<>>
            /\ ~last'.none /\ last'.got = disk[AskedFile(last')].c]_vars

(* ---------------------------------------------------------------------- *)
\* the pages that page p lists, and the pages reached from p by n links or fewer
LinksOf(p) == {site[p][i].SubregionURL : i \in DOMAIN site[p]}
RECURSIVE ReachedFrom(_, _)
ReachedFrom(S, n) ==
  IF n = 0 THEN S
  ELSE ReachedFrom(S \cup UNION {LinksOf(p) : p \in S}, n - 1)
\* no page is reached from itself
Acyclic == \A p \in 0..NU : p \notin ReachedFrom(LinksOf(p), NU)

\* from one test of the while loop to the next, nothing being left out
PassMade ==
  /\ crawling.pc = "while" /\ crawling'.pc = "while"
  /\ crawling' # crawling
  /\ ~crawling'.full

\* the rows of the tables of the frontier, table after table
FrontierRows == Flatten(crawling.subregion_url_tables)

\* C14 as claimed: on every finite site the crawl of
\* collect_subregion_info_catalogue terminates: the frontier becomes empty
\* and the loop is left.
C14_TerminatesOnEveryFiniteSite == <>(crawling.pc = "save")

\* C14 as amended: on every finite site whose links form no cycle the crawl
\* terminates: the frontier becomes empty and the loop is left.  On every
\* site, a pass appends the names and the URLs of the rows of each table of
\* the frontier once, in order, and the next frontier holds exactly the
\* tables the parser returned for these rows during the pass, one for each
\* return, so a table is in the frontier for one level; the two lists have
\* equal length at all times.
C14_TerminatesWithoutCycles ==
  /\ Acyclic => <>(crawling.pc = "save")
  /\ [](Acyclic => ~crawling.full)
  /\ [](Len(crawling.avail_subregions) = Len(crawling.avail_subregion_urls))
  /\ [][PassMade =>
          /\ crawling'.avail_subregions = crawling.avail_subregions \o Subregion(FrontierRows)
          /\ crawling'.avail_subregion_urls =
               crawling.avail_subregion_urls \o SubregionURL(FrontierRows)
          /\ crawling'.subregion_url_tables =
               NotNone([j \in 1..Len(FrontierRows) |->
                          get_subregion_table(FrontierRows[j].SubregionURL)])]_vars

\* the crawl of a site without cycles has ended, and a region with
\* subregions was listed by two pages: its table was parsed and placed in
\* the frontier twice, and the names of its rows are in the list twice
C14_Witness ==
  /\ crawling.pc = "save"
  /\ Acyclic
  /\ ~crawling.full
  /\ \E i, j \in DOMAIN crawling.avail_subregion_urls :
       /\ i < j
       /\ crawling.avail_subregion_urls[i] = crawling.avail_subregion_urls[j]
       /\ site[crawling.avail_subregion_urls[i]] # <<>>

====
